---- MODULE Spec2Model ----
(***************************************************************************)
(* A model of the Camera class of nlc-receiver (src/nlc-receiver/camera.cpp)*)
(* on top of an abstract libdc1394 driver.                                  *)
(*                                                                          *)
(* Several threads touch one Camera object: the control thread, which calls *)
(* the public methods, and the threads startCaptureVideo() creates, which   *)
(* run grabVideo().  The class holds no lock, so the threads interleave     *)
(* between any two accesses to the object.  A step of a thread is one of:   *)
(* the load of a member, which for the last argument of a driver call is    *)
(* also the entry of the call, the driver call returning (the driver acts   *)
(* and hands back a result), the store of the result in err or camHandle,   *)
(* the test of a member, the store of a flag, a read through a pointer      *)
(* loaded before, a throw.  A thread therefore tests the err another thread *)
(* has stored in between, and passes the frameHandle another thread has     *)
(* dequeued, with the camHandle it loaded before or after.                  *)
(*                                                                          *)
(* Every driver call reports success or failure as the driver pleases; a    *)
(* driver call through a pointer that points to no object (never assigned,  *)
(* NULL, or freed) is undefined behaviour, modelled as success, failure or  *)
(* a crash of the process.  Of the driver's state the model keeps the DMA   *)
(* ring of the camera camHandle points to.  The methods catch nothing, so   *)
(* an exception always reaches the caller of the public method; in a video  *)
(* thread it reaches std::terminate.                                        *)
(***************************************************************************)
EXTENDS Integers, Sequences, FiniteSets, TLC

VARIABLES
    cam,        \* the fields of the Camera object
    err,        \* the member err: the result of the latest driver call
                \* that stored one ("unset" before the first)
    dev,        \* the DMA ring of the camera camHandle points to: the buffers
                \* the driver holds, in the order it will hand them out, and
                \* whether a buffer could not be given back
    cpc,        \* position of the control thread
    cstk,       \* what is left to run of the control thread's public call
    vpc,        \* position of each video thread inside grabVideo()
    vstk,       \* what is left to run of each video thread's grabFrame()
    proc,       \* "running", or "terminated" after std::terminate / a crash
    last,       \* the control thread's most recent public call (history)
    vlog,       \* driver calls of each video thread's most recent half of
                \* grabFrame() (history)
    verr,       \* exception that escaped grabVideo() in each thread (history)
    unusable,   \* a failed Resolution or FrameRate setting has freed the live
                \* camera and no open() has succeeded since (history)
    ncalls      \* the public calls the control thread has made

vars == <<cam, err, dev, cpc, cstk, vpc, vstk, proc, last, vlog, verr, unusable,
          ncalls>>

(***************************************************************************)
(* Bounds of the model.                                                     *)
(***************************************************************************)
\* Device::cameraDmaCounts, the size of the DMA ring (declared in camera.hpp).
cameraDmaCounts == 2
\* Longest parameter list passed to setParameter.
MaxParams == 2
\* The public calls the control thread makes on one Camera.
MaxCalls == 4
\* The public calls it makes on a Camera whose capture loop it starts.
MaxVideoCalls == 3

(***************************************************************************)
(* Exceptions, by the text of their what().                                 *)
(***************************************************************************)
NoExc        == "none"
Pending      == "pending"
Crash        == "crash"
E_Open       == "Failed to initialize camera with GUID"
E_Enumerate  == "Failed to enumerate cameras"
E_BusSpeed   == "Failed to switch bus speed"
E_Roi        == "Failed to set format 7 configurations"
E_FrameRate  == "Failed to update frame rate"
E_Unknown    == "Unknown camera parameter"
E_Setup      == "Failed to start the acquisition session"
E_Dequeue    == "Failed to grab a frame"
E_Enqueue    == "Failed to enqueue back the frame buffer"
E_StopAcq    == "Failed to stop the acquisition session"
E_StartTx    == "Failed to start isochronous transmission"
E_StopTx     == "Failed to stop the transmission"
E_Join       == "std::system_error"
E_BadAlloc   == "std::bad_alloc"

(***************************************************************************)
(* The driver.                                                              *)
(***************************************************************************)
\* What a pointer to a driver object can point to: nothing known (never
\* assigned), NULL, the camera whose ring dev describes ("live"), a camera
\* camHandle pointed to before open() overwrote it ("lost": never freed),
\* a freed object, or the list dc1394_camera_enumerate hands out.
Handles == {"uninit", "null", "live", "lost", "freed", "list"}

\* The pointers a driver call may be given.
Valid(h) == h \in {"live", "lost", "list"}

\* The buffers of a DMA ring, in the order a fresh ring hands them out.
Ring == [i \in 1..cameraDmaCounts |-> <<"F1", "F2", "F3", "F4">>[i]]

Buffers == {Ring[i] : i \in 1..cameraDmaCounts}

\* What frameHandle can point to: nothing known, NULL, a buffer of the
\* ring of dev, a buffer of a lost camera, or memory that capture stop,
\* capture setup or camera free has released ("stale").
Frames == {"uninit", "null", "lost", "stale"} \cup Buffers

\* Outcomes of a driver call that reports a result.
Outcomes == {"ok", "fail"}

\* The configuration parameters, and a tag setParameter does not know.
Parameters == {"BusSpeed", "Resolution", "FrameRate"}
Tags == Parameters \cup {"Unknown"}

RECURSIVE SeqsUpTo(_, _)
SeqsUpTo(S, n) ==
    IF n = 0 THEN {<<>>}
    ELSE LET shorter == SeqsUpTo(S, n - 1) IN
         shorter \cup {Append(s, x) : s \in {t \in shorter : Len(t) = n - 1}, x \in S}

\* The argument lists of setParameter.
ParamLists == SeqsUpTo(Tags, MaxParams)

\* The calls that set no more than one parameter.
SingleParamLists == SeqsUpTo(Tags, 1)

\* The DMA ring as capture setup, capture stop and a fresh camera leave it:
\* the driver holds every buffer.
EmptyRing == [free |-> Ring, stuck |-> FALSE]

\* The buffers of the ring d the program holds.
Dequeued(d) == cameraDmaCounts - Len(d.free)

\* The buffer b is with the driver.
InRing(d, b) == \E i \in 1..Len(d.free) : d.free[i] = b

(***************************************************************************)
(* The code of the methods, as the statements a thread has left to run.     *)
(* A statement is a record: its kind, what it names, for a driver call the  *)
(* member its result goes into and the pointer and the frame it was entered *)
(* with, and the value (reg) that is about to be stored.                    *)
(***************************************************************************)
Stmt(k, a) ==
    [kind |-> k, what |-> a, into |-> "-", ptr |-> "-", frame |-> "-", reg |-> "-"]

\* err = fn(...): a driver call whose result is stored in err.
Stored(fn) == [Stmt("call", fn) EXCEPT !.into = "err"]
\* fn(...): a driver call that has no result, or whose result is dropped.
Dropped(fn) == Stmt("call", fn)
\* if(...): the branch at the place named.
If(at) == Stmt("if", at)
\* flag = true / flag = false
Set(flag) == [Stmt("set", flag) EXCEPT !.reg = "true"]
Clear(flag) == [Stmt("set", flag) EXCEPT !.reg = "false"]
\* throw std::runtime_error(e)
ThrowStmt(e) == Stmt("throw", e)
\* dc1394frameToMat(frameHandle): the member is loaded, then the function
\* reads the frame through the pointer.
Convert == Stmt("convert", "dc1394frameToMat")
\* for(i < list->num) deviceList.push_back(list->ids[i].guid): the loop of
\* listDevices(), which reads through the local variable list.
Loop == Stmt("for", "list")
\* The end of the destructor's body: the members are destroyed.
Members == Stmt("members", "~Camera")
\* std::thread(&Camera::grabVideo, this): the new thread starts.
Spawn == Stmt("spawn", "std::thread")
\* videoThread = (the new thread): the move assignment.
Assign == Stmt("assign", "videoThread")
\* Inside videoThread.join(): the wait for the thread's end.
Wait == Stmt("wait", "videoThread")

\* Camera::freeCamera
freeCamera == <<Dropped("dc1394_camera_free")>>

\* Camera::freeObject
freeObject == <<Dropped("dc1394_free")>>

\* Camera::stopTransmission
stopTransmission ==
    <<Stored("dc1394_video_set_transmission(OFF)"), If("stopTransmission")>>

\* Camera::stopAcquisition
stopAcquisition == <<Stored("dc1394_capture_stop"), If("stopAcquisition")>>

\* Camera::startTransmission
startTransmission ==
    <<Stored("dc1394_video_set_transmission(ON)"), If("startTransmission")>>

\* Camera::startAcquisition
startAcquisition == <<Stored("dc1394_capture_setup"), If("startAcquisition")>>

\* Camera::open: the result of dc1394_camera_new is stored in camHandle,
\* which is looked at afterwards.
open == <<[Stmt("call", "dc1394_camera_new") EXCEPT !.into = "camHandle"], If("open")>>

\* Camera::close
close == <<If("close.isTransmitting"), If("close.isDeviceOpened")>>

\* Camera::listDevices
listDevices ==
    <<Stored("dc1394_camera_enumerate"), If("listDevices"), Loop,
      Dropped("dc1394_camera_free_list")>>

\* One turn of the for loop of Camera::setParameter.
applyParameter(tag) ==
    CASE tag = "BusSpeed"   -> <<Stored("dc1394_video_set_iso_speed"), If("BusSpeed")>>
      [] tag = "Resolution" -> <<Stored("dc1394_format7_set_roi"), If("Resolution")>>
      [] tag = "FrameRate"  -> <<Stored("dc1394_video_set_framerate"), If("FrameRate")>>
      [] OTHER              -> <<ThrowStmt(E_Unknown)>>

\* The for loop of Camera::setParameter, from parameter i on.
RECURSIVE applyParameters(_, _)
applyParameters(ps, i) ==
    IF i > Len(ps) THEN <<>>
    ELSE applyParameter(ps[i]) \o applyParameters(ps, i + 1)

\* The two driver calls Camera::setParameter makes before the loop; their
\* results are not looked at.
forceStop ==
    <<Dropped("dc1394_video_set_transmission(OFF)"), Dropped("dc1394_capture_stop")>>

\* Camera::setParameter
setParameter(ps) == forceStop \o applyParameters(ps, 1)

\* Camera::grabFrame
grabFrame ==
    <<Stored("dc1394_capture_dequeue"), If("grabFrame.dequeue"), Convert,
      Stored("dc1394_capture_enqueue"), If("grabFrame.enqueue")>>

\* Camera::startCaptureVideo
startCaptureVideo == <<Set("frameViewer"), Set("isCapturingVideo"), Spawn, Assign>>

\* Camera::stopCaptureVideo: join() throws when there is no thread to join.
stopCaptureVideo == <<Clear("isCapturingVideo"), If("join")>>

\* Camera::~Camera: close(), freeObject(), then the members' destructors.
destructor == close \o freeObject \o <<Members>>

(***************************************************************************)
(* A thread runs on a world w: the object, err, the driver state, the       *)
(* statements left (stk), the driver calls entered so far, the exception in *)
(* flight, whether grabFrame() has its buffer (pos), what the step does to  *)
(* the objects other threads' calls were entered with (ev), and the thread  *)
(* it starts (spawn).                                                       *)
(***************************************************************************)
World(s, calls, pos) ==
    [cam |-> cam, err |-> err, dev |-> dev, stk |-> s, calls |-> calls,
     exc |-> NoExc, pos |-> pos, ev |-> "none", spawn |-> 0]

\* An exception leaves every method on its way: nothing catches it.
Throw(w, e) == [w EXCEPT !.exc = e, !.stk = <<>>]

\* The statements s take the place of the one being run.
Replace(w, s) == [w EXCEPT !.stk = s \o Tail(@)]

\* What a camera pointer points to after the event ev: the camera of dev
\* was freed, camHandle was overwritten, a lost camera was freed.
MarkH(h, ev) ==
    CASE ev = "freed" /\ h = "live" -> "freed"
      [] ev = "replaced" /\ h = "live" -> "lost"
      [] ev = "lost freed" /\ h = "lost" -> "freed"
      [] OTHER -> h

\* What a frame pointer points to after the event ev; "reset" is a capture
\* setup or a capture stop, which release the buffers of the ring.
MarkF(f, ev) ==
    CASE ev \in {"freed", "reset"} /\ f \in Buffers -> "stale"
      [] ev = "replaced" /\ f \in Buffers -> "lost"
      [] ev = "lost freed" /\ f = "lost" -> "stale"
      [] OTHER -> f

\* The driver functions that are given camHandle.
OnCamera(fn) ==
    fn \notin {"dc1394_camera_new", "dc1394_camera_enumerate", "dc1394_free",
               "dc1394_camera_free_list"}

\* The statements s of another thread after the event ev: the camera and
\* the frame that thread has loaded, among them the arguments of the
\* driver call it is in, point to what the event has left.  A call made
\* with objHandle or with a list is not touched by what happens to a camera.
Mark(s, ev) ==
    IF s # <<>> /\ Head(s).kind \in {"arg", "ret", "mat"} /\ OnCamera(Head(s).what)
    THEN <<[Head(s) EXCEPT !.ptr = MarkH(@, ev), !.frame = MarkF(@, ev)]>> \o Tail(s)
    ELSE s

\* The event ev has happened in the world w.
Event(w, ev) ==
    [w EXCEPT !.ev = ev,
              !.cam.camHandle = IF ev = "replaced" THEN @ ELSE MarkH(@, ev),
              !.cam.frameHandle = MarkF(@, ev),
              !.dev = IF ev = "lost freed" THEN @ ELSE EmptyRing]

\* The pointer the driver call i is made with: objHandle, camHandle, or
\* the local variable list of listDevices().
HandleOf(c, i) ==
    CASE i.what \in {"dc1394_camera_new", "dc1394_camera_enumerate", "dc1394_free"}
            -> c.objHandle
      [] i.what = "dc1394_camera_free_list" -> i.ptr
      [] OnCamera(i.what) -> c.camHandle

\* The frame a driver function is called with.
FrameOf(c, fn) == IF fn = "dc1394_capture_enqueue" THEN c.frameHandle ELSE "-"

\* The members a driver function takes two of as arguments:
\* dc1394_capture_enqueue(camHandle, frameHandle).  The two loads are not
\* ordered by the language, and nothing keeps another thread from running
\* between them.
TwoLoads(fn) == IF fn = "dc1394_capture_enqueue" THEN {"camHandle", "frameHandle"} ELSE {}

\* The thread loads the member m, the first of the two arguments of the
\* driver call at the head of w.stk.
LoadArg(w, m) ==
    LET i == Head(w.stk) IN
    Replace(w, <<IF m = "camHandle"
                 THEN [i EXCEPT !.kind = "arg", !.ptr = HandleOf(w.cam, i)]
                 ELSE [i EXCEPT !.kind = "arg", !.frame = FrameOf(w.cam, i.what)]>>)

\* The thread enters the driver call at the head of w.stk: the argument
\* not loaded yet is read from its member.
Native(w) ==
    LET i == Head(w.stk)
        h == IF i.kind = "arg" /\ i.ptr # "-" THEN i.ptr ELSE HandleOf(w.cam, i)
        f == IF i.kind = "arg" /\ i.frame # "-" THEN i.frame
             ELSE FrameOf(w.cam, i.what)
    IN [w EXCEPT !.calls = Append(@, [fn |-> i.what, h |-> h]),
                 !.stk = <<[i EXCEPT !.kind = "ret", !.ptr = h, !.frame = f]>>
                            \o Tail(@)]

\* The results a driver function can report.
Results(fn) ==
    IF fn \in {"dc1394_camera_free", "dc1394_free", "dc1394_camera_free_list"}
    THEN {"ok"} ELSE Outcomes

\* A driver call with a pointer that points to no object is undefined
\* behaviour: it reports anything, or crashes the process.  Each such call
\* may be the one that crashes.
Undefined(i) ==
    IF \/ ~Valid(i.ptr)
       \/ i.what = "dc1394_capture_enqueue" /\ i.frame \in {"uninit", "null", "stale"}
    THEN BOOLEAN ELSE {FALSE}

\* The blocking dequeue (DC1394_CAPTURE_POLICY_WAIT) can hand out a buffer
\* only while the driver holds one.
CanReturn(w, r) ==
    LET i == Head(w.stk) IN
    (i.what = "dc1394_capture_dequeue" /\ i.ptr = "live" /\ r = "ok")
        => w.dev.free # <<>>

\* A dequeue that fails leaves the frame pointer alone or sets it to NULL.
FailedFrame(i, r) ==
    IF i.what = "dc1394_capture_dequeue" /\ r # "ok" THEN BOOLEAN ELSE {FALSE}

\* What the driver call i, returning r, does to the driver and to what the
\* pointers of the object point to; null tells what a failed dequeue does
\* to the frame pointer.
Effect(w, i, r, null) ==
    CASE i.what = "dc1394_camera_free" /\ i.ptr = "live" -> Event(w, "freed")
      [] i.what = "dc1394_camera_free" /\ i.ptr = "lost" -> Event(w, "lost freed")
      [] i.what = "dc1394_free" /\ i.ptr = "live" ->
            [w EXCEPT !.cam.objHandle = "freed"]
      [] i.what \in {"dc1394_capture_setup", "dc1394_capture_stop"}
           /\ i.ptr = "live" /\ r = "ok" -> Event(w, "reset")
      [] i.what = "dc1394_capture_dequeue" /\ r = "ok" ->
            IF i.ptr = "live"
            THEN [w EXCEPT !.dev.free = Tail(@),
                           !.cam.frameHandle = Head(w.dev.free)]
            ELSE [w EXCEPT !.cam.frameHandle =
                              IF i.ptr = "lost" THEN "lost" ELSE "stale"]
      [] i.what = "dc1394_capture_dequeue" /\ r # "ok" /\ null ->
            [w EXCEPT !.cam.frameHandle = "null"]
      [] i.what = "dc1394_capture_enqueue" /\ i.ptr = "live" /\ i.frame \in Buffers ->
            IF InRing(w.dev, i.frame) THEN w
            ELSE IF r = "ok" THEN [w EXCEPT !.dev.free = Append(@, i.frame)]
            ELSE [w EXCEPT !.dev.stuck = TRUE]
      [] OTHER -> w

\* The value the driver call i hands back when it reports r.
Returned(i, r) ==
    IF i.what = "dc1394_camera_new" THEN (IF r = "ok" THEN "live" ELSE "null") ELSE r

\* dc1394_camera_enumerate(objHandle, &list) has reported r: the local
\* variable list, which the statements s read in the loop and pass to
\* dc1394_camera_free_list, points to a list when the call succeeded and
\* to nothing known otherwise.
Listed(s, r) ==
    [j \in 1..Len(s) |->
        IF s[j].kind = "for" \/ s[j].what = "dc1394_camera_free_list"
        THEN [s[j] EXCEPT !.ptr = IF r = "ok" THEN "list" ELSE "uninit"]
        ELSE s[j]]

\* The driver call the thread is in returns r, or crashes.
Return(w, r, crash, null) ==
    LET i == Head(w.stk) IN
    IF crash THEN Throw(w, Crash)
    ELSE LET w1 == Effect(w, i, r, null)
             w2 == IF i.what = "dc1394_camera_enumerate"
                   THEN [w1 EXCEPT !.stk = Listed(@, r)] ELSE w1
         IN
         IF i.into = "-" THEN [w2 EXCEPT !.stk = Tail(@)]
         ELSE Replace(w2, <<[Stmt("store", i.into) EXCEPT !.reg = Returned(i, r)]>>)

\* The result of a driver call is stored in err or in camHandle.
Store(w) ==
    LET i == Head(w.stk) IN
    IF i.what = "err" THEN [w EXCEPT !.stk = Tail(@), !.err = i.reg]
    ELSE LET w1 == Event(w, "replaced") IN
         [w1 EXCEPT !.stk = Tail(@), !.cam.camHandle = i.reg]

\* Reading a frame through a pointer that points to no buffer is undefined
\* behaviour.
BadFrame(f) ==
    IF f \in {"uninit", "null", "stale"} THEN BOOLEAN ELSE {FALSE}

\* The argument of dc1394frameToMat(frameHandle) is loaded from the member.
LoadFrame(w) ==
    Replace(w, <<[Head(w.stk) EXCEPT !.kind = "mat", !.frame = w.cam.frameHandle]>>)

\* dc1394frameToMat reads the size and the image of the frame it was called
\* with.
ToMat(w, crash) ==
    IF crash THEN Throw(w, Crash) ELSE [w EXCEPT !.stk = Tail(@)]

\* Reading the list through a pointer that points to no list is undefined
\* behaviour: the loop ends, the process crashes, or what is read as
\* list->num is so large that deviceList.push_back runs out of memory and
\* throws.
BadList(i) == IF Valid(i.ptr) THEN {NoExc} ELSE {NoExc, Crash, E_BadAlloc}

\* The loop of listDevices() reads list->num and every list->ids[i], and
\* ends normally or with the exception e.
ReadList(w, e) ==
    IF e # NoExc THEN Throw(w, e) ELSE [w EXCEPT !.stk = Tail(@)]

\* The statement at the head of w.stk, which is neither a driver call, nor
\* the frame conversion, nor the loop of listDevices().
Statement(w) ==
    LET i == Head(w.stk)
        failed == w.err # "ok"
    IN
    CASE i.kind = "throw" -> Throw(w, i.what)
      [] i.kind = "store" -> Store(w)
      [] i.kind = "set" /\ i.what = "isTransmitting" ->
            [w EXCEPT !.stk = Tail(@), !.cam.isTransmitting = (i.reg = "true")]
      [] i.kind = "set" /\ i.what = "isDeviceOpened" ->
            [w EXCEPT !.stk = Tail(@), !.cam.isDeviceOpened = (i.reg = "true")]
      [] i.kind = "set" /\ i.what = "isCapturingVideo" ->
            [w EXCEPT !.stk = Tail(@), !.cam.isCapturingVideo = (i.reg = "true")]
      [] i.kind = "set" /\ i.what = "frameViewer" ->
            [w EXCEPT !.stk = Tail(@), !.cam.frameViewer = "viewer"]
      [] i.kind = "spawn" ->
            [w EXCEPT !.stk = Tail(@),
                      !.spawn = IF w.cam.videoThread = "joinable" THEN 2 ELSE 1]
      [] i.kind = "assign" ->
            IF w.cam.videoThread = "joinable" THEN Throw(w, "std::terminate")
            ELSE [w EXCEPT !.stk = Tail(@), !.cam.videoThread = "joinable"]
      [] i.kind = "wait" ->
            [w EXCEPT !.stk = Tail(@), !.cam.videoThread = "empty"]
      [] i.kind = "members" ->
            IF w.cam.videoThread = "joinable" THEN Throw(w, "std::terminate")
            ELSE [w EXCEPT !.stk = Tail(@), !.pos = "destroyed"]
      [] i.what = "join" ->
            IF w.cam.videoThread = "joinable" THEN Replace(w, <<Wait>>)
            ELSE Replace(w, <<ThrowStmt(E_Join)>>)
      [] i.what = "stopTransmission" ->
            IF failed THEN Replace(w, <<ThrowStmt(E_StopTx)>>)
            ELSE Replace(w, <<Clear("isTransmitting")>>)
      [] i.what = "stopAcquisition" ->
            IF failed THEN Replace(w, <<ThrowStmt(E_StopAcq)>>)
            ELSE Replace(w, stopTransmission)
      [] i.what = "startTransmission" ->
            IF failed
            THEN Replace(w, stopAcquisition \o freeCamera \o <<ThrowStmt(E_StartTx)>>)
            ELSE Replace(w, <<Set("isTransmitting")>>)
      [] i.what = "startAcquisition" ->
            IF failed
            THEN Replace(w, freeCamera \o <<ThrowStmt(E_Setup)>>)
            ELSE Replace(w, startTransmission)
      [] i.what = "open" ->
            IF w.cam.camHandle = "null" THEN Replace(w, <<ThrowStmt(E_Open)>>)
            ELSE Replace(w, <<Set("isDeviceOpened")>>)
      [] i.what = "close.isTransmitting" ->
            IF w.cam.isTransmitting
            THEN Replace(w, stopAcquisition \o <<Clear("isTransmitting")>>)
            ELSE Replace(w, <<>>)
      [] i.what = "close.isDeviceOpened" ->
            IF w.cam.isDeviceOpened
            THEN Replace(w, freeCamera \o <<Clear("isDeviceOpened")>>)
            ELSE Replace(w, <<>>)
      [] i.what = "listDevices" ->
            IF failed THEN Replace(w, <<ThrowStmt(E_Enumerate)>>)
            ELSE Replace(w, <<>>)
      [] i.what = "BusSpeed" ->
            IF failed THEN Replace(w, <<ThrowStmt(E_BusSpeed)>>)
            ELSE Replace(w, <<>>)
      [] i.what = "Resolution" ->
            IF failed THEN Replace(w, freeCamera \o <<ThrowStmt(E_Roi)>>)
            ELSE Replace(w, <<>>)
      [] i.what = "FrameRate" ->
            IF failed THEN Replace(w, freeCamera \o <<ThrowStmt(E_FrameRate)>>)
            ELSE Replace(w, <<>>)
      [] i.what = "grabFrame.dequeue" ->
            IF failed
            THEN Replace(w, stopAcquisition \o freeCamera \o <<ThrowStmt(E_Dequeue)>>)
            ELSE [w EXCEPT !.stk = Tail(@), !.pos = "grab"]
      [] i.what = "grabFrame.enqueue" ->
            IF failed
            THEN Replace(w, stopAcquisition \o freeCamera \o <<ThrowStmt(E_Enqueue)>>)
            ELSE [w EXCEPT !.stk = Tail(@), !.pos = "done"]

\* The thread of w has nothing left to run, or an exception ends it.
Done(w) == w.exc # NoExc \/ w.stk = <<>>

\* The worlds one step of the thread of w leads to.
Steps(w) ==
    LET i == Head(w.stk) IN
    CASE i.kind = "call" ->
            IF TwoLoads(i.what) = {} THEN {Native(w)}
            ELSE {LoadArg(w, m) : m \in TwoLoads(i.what)}
      [] i.kind = "arg" -> {Native(w)}
      [] i.kind = "ret" ->
            UNION {{Return(w, r, crash, null) :
                       crash \in Undefined(i), null \in FailedFrame(i, r)} :
                   r \in {x \in Results(i.what) : CanReturn(w, x)}}
      [] i.kind = "convert" -> {LoadFrame(w)}
      [] i.kind = "mat" -> {ToMat(w, crash) : crash \in BadFrame(i.frame)}
      [] i.kind = "for" -> {ReadList(w, e) : e \in BadList(i)}
      [] OTHER -> {Statement(w)}

(***************************************************************************)
(* The state after Camera::Camera() has returned.  The constructor sets     *)
(* isDeviceOpened, isTransmitting and objHandle and nothing else.           *)
(***************************************************************************)
\* The threads startCaptureVideo() can have started: the one videoThread
\* refers to, and the one a second startCaptureVideo() creates before the
\* move assignment to the joinable videoThread ends the process.
VideoThreads == {1, 2}

Init ==
    /\ cam \in [isDeviceOpened : {FALSE}, isTransmitting : {FALSE},
                isCapturingVideo : BOOLEAN, camHandle : {"uninit"},
                objHandle : {"live"}, videoThread : {"empty"},
                frameHandle : {"uninit"}, frameViewer : {"uninit"}]
    /\ err = "unset"
    /\ dev = EmptyRing
    /\ cpc = "ready"
    /\ cstk = <<>>
    /\ vpc = [t \in VideoThreads |-> "none"]
    /\ vstk = [t \in VideoThreads |-> <<>>]
    /\ proc = "running"
    /\ last = [op |-> "Camera", exc |-> NoExc, calls |-> <<>>,
               wasOpened |-> FALSE, wasTransmitting |-> FALSE,
               wasHandle |-> "uninit", wasUnusable |-> FALSE,
               after |-> "other"]
    /\ vlog = [t \in VideoThreads |-> <<>>]
    /\ verr = [t \in VideoThreads |-> NoExc]
    /\ unusable = FALSE
    /\ ncalls = 0

(***************************************************************************)
(* The control thread.                                                      *)
(***************************************************************************)
\* The control thread is between two public calls and has the call of op
\* left to make.
Ready(op) ==
    /\ proc = "running"
    /\ cpc = "ready"
    /\ ncalls < (IF op = "startCaptureVideo" \/ vpc[1] # "none"
                 THEN MaxVideoCalls ELSE MaxCalls)

\* std::terminate and a crash end the process; other exceptions reach the
\* caller, who may go on calling.
Fatal == {Crash, "std::terminate"}

\* What the call l, now over, was, for the call that follows it: a close()
\* of a live camera that returned or that threw, a setParameter that
\* failed on BusSpeed, or something else.
After(l) ==
    CASE l.op = "close" /\ l.wasHandle = "live" /\ l.exc = NoExc -> "close"
      [] l.op = "close" /\ l.wasHandle = "live" /\ l.exc # NoExc -> "close threw"
      [] l.op = "setParameter" /\ l.wasHandle = "live" /\ l.exc = E_BusSpeed
            -> "BusSpeed failed"
      [] OTHER -> "other"

\* The record of a public call op that starts now.
Entered(op) ==
    [op |-> op, exc |-> Pending, calls |-> <<>>,
     wasOpened |-> cam.isDeviceOpened,
     wasTransmitting |-> cam.isTransmitting,
     wasHandle |-> cam.camHandle,
     wasUnusable |-> unusable,
     after |-> After(last)]

\* What reaches the caller of the call l when it ends in world w: an
\* exception that leaves the destructor calls std::terminate.
Outcome(l, w) ==
    IF l.op = "~Camera" /\ w.exc \notin {NoExc, Crash}
    THEN "std::terminate" ELSE w.exc

\* A step of the public call l has led to world w: the call goes on, or it
\* returns (or throws) to the caller.  What the step did to the objects
\* the video threads' driver calls were entered with, they find on return.
Settle(l, w) ==
    LET e == Outcome(l, w) IN
    /\ cam' = w.cam
    /\ err' = w.err
    /\ dev' = w.dev
    /\ cstk' = IF Done(w) THEN <<>> ELSE w.stk
    /\ last' = [l EXCEPT !.exc = IF Done(w) THEN e ELSE Pending,
                         !.calls = w.calls]
    /\ cpc' = IF ~Done(w)
              THEN (IF Head(w.stk).kind = "wait" THEN "join"
                    ELSE IF w.pos = "grab" THEN "grab" ELSE "busy")
              ELSE IF w.pos = "destroyed" /\ e = NoExc THEN "destroyed"
              ELSE "ready"
    /\ proc' = IF Done(w) /\ e \in Fatal THEN "terminated" ELSE proc
    /\ unusable' =
          IF Done(w) /\ e \in {E_Roi, E_FrameRate} /\ l.wasHandle = "live"
          THEN TRUE
          ELSE IF Done(w) /\ l.op = "open" /\ e = NoExc THEN FALSE
          ELSE unusable
    /\ vpc' = IF w.spawn = 0 THEN vpc ELSE [vpc EXCEPT ![w.spawn] = "check"]
    /\ vstk' = [t \in VideoThreads |-> Mark(vstk[t], w.ev)]

\* The control thread calls the public method op, whose code is s.
Enter(op, s) ==
    /\ Ready(op)
    /\ Settle(Entered(op), World(s, <<>>, "busy"))
    /\ ncalls' = ncalls + 1
    /\ UNCHANGED <<vlog, verr>>

ListDevices == Enter("listDevices", listDevices)

Open == Enter("open", open)

Close == Enter("close", close)

\* setParameter with any argument list.
SetParameter == \E ps \in ParamLists : Enter("setParameter", setParameter(ps))

\* setParameter with one parameter at most.
SetSingleParameter ==
    \E ps \in SingleParamLists : Enter("setParameter", setParameter(ps))

StartAcquisition == Enter("startAcquisition", startAcquisition)

StopAcquisition == Enter("stopAcquisition", stopAcquisition)

GrabFrame == Enter("grabFrame", grabFrame)

StartCaptureVideo == Enter("startCaptureVideo", startCaptureVideo)

StopCaptureVideo == Enter("stopCaptureVideo", stopCaptureVideo)

Destroy == Enter("~Camera", destructor)

\* The control thread goes on with its public call by one step.
ControlStep ==
    /\ proc = "running"
    /\ cpc \in {"busy", "grab"}
    /\ \E w \in Steps(World(cstk, last.calls, cpc)) : Settle(last, w)
    /\ UNCHANGED <<vlog, verr, ncalls>>

\* A stop that does not wait for the thread (detach in place of join).
ThreadFinishedNoWait == TRUE

\* What videoThread.join() waits for.
ThreadFinished == vpc[1] = "exited"

\* videoThread.join() returns, and with it stopCaptureVideo().
StopCaptureJoin ==
    /\ proc = "running"
    /\ cpc = "join"
    /\ ThreadFinished
    /\ Settle(last, Statement(World(cstk, last.calls, cpc)))
    /\ UNCHANGED <<vlog, verr, ncalls>>

(***************************************************************************)
(* The video threads: Camera::grabVideo.                                    *)
(***************************************************************************)
\* A loop that never looks at the flag again (while(true)).
LoopConditionNotRead == TRUE

\* The condition of the loop in grabVideo(), read afresh at every turn.
LoopCondition == cam.isCapturingVideo

\* while(isCapturingVideo)
VideoCheck ==
    \E t \in VideoThreads :
        /\ proc = "running"
        /\ vpc[t] = "check"
        /\ vpc' = [vpc EXCEPT ![t] = IF LoopCondition THEN "dequeue" ELSE "exited"]
        /\ vstk' = [vstk EXCEPT ![t] = IF LoopCondition THEN grabFrame ELSE <<>>]
        /\ UNCHANGED <<cam, err, dev, cpc, cstk, proc, last, vlog, verr, unusable,
                       ncalls>>

\* The driver calls of the half of grabFrame() the video thread t is in: a
\* new half starts with the dequeue and with the enqueue.
HalfSoFar(t) ==
    IF /\ Head(vstk[t]).kind = "call"
       /\ Head(vstk[t]).what \in {"dc1394_capture_dequeue", "dc1394_capture_enqueue"}
    THEN <<>> ELSE vlog[t]

\* A step of grabFrame() in the video thread t; an exception leaves the
\* thread function and std::terminate ends the process.
VideoStep(t) ==
    /\ proc = "running"
    /\ vstk[t] # <<>>
    /\ \E w \in Steps(World(vstk[t], HalfSoFar(t),
                            IF vpc[t] = "enqueue" THEN "grab" ELSE "busy")) :
          /\ cam' = w.cam
          /\ err' = w.err
          /\ dev' = w.dev
          /\ vstk' = [u \in VideoThreads |->
                         IF u # t THEN Mark(vstk[u], w.ev)
                         ELSE IF Done(w) THEN <<>> ELSE w.stk]
          /\ cstk' = Mark(cstk, w.ev)
          /\ vlog' = [vlog EXCEPT ![t] = w.calls]
          /\ verr' = [verr EXCEPT ![t] = w.exc]
          /\ vpc' = [vpc EXCEPT ![t] =
                        IF w.exc # NoExc THEN "threw"
                        ELSE IF w.stk = <<>> THEN "show"
                        ELSE IF w.pos = "grab" THEN "enqueue"
                        ELSE @]
          /\ proc' = IF w.exc # NoExc THEN "terminated" ELSE proc
    /\ UNCHANGED <<cpc, last, unusable, ncalls>>

\* grabFrame() in a video thread up to the test of the dequeue's result.
VideoDequeue == \E t \in VideoThreads : vpc[t] = "dequeue" /\ VideoStep(t)

\* grabFrame() in a video thread from the frame conversion on.
VideoEnqueue == \E t \in VideoThreads : vpc[t] = "enqueue" /\ VideoStep(t)

\* frameViewer->showImage(...)
VideoShow ==
    \E t \in VideoThreads :
        /\ proc = "running"
        /\ vpc[t] = "show"
        /\ vpc' = [vpc EXCEPT ![t] = "sleep"]
        /\ UNCHANGED <<cam, err, dev, cpc, cstk, vstk, proc, last, vlog, verr,
                       unusable, ncalls>>

\* std::this_thread::sleep_for(33 ms)
VideoSleep ==
    \E t \in VideoThreads :
        /\ proc = "running"
        /\ vpc[t] = "sleep"
        /\ vpc' = [vpc EXCEPT ![t] = "check"]
        /\ UNCHANGED <<cam, err, dev, cpc, cstk, vstk, proc, last, vlog, verr,
                       unusable, ncalls>>

\* The steps of the video threads.
VideoNext ==
    \/ VideoCheck
    \/ VideoDequeue
    \/ VideoEnqueue
    \/ VideoShow
    \/ VideoSleep

\* The public methods that start no thread, called one after the other.
ApiNext ==
    \/ ListDevices
    \/ Open
    \/ Close
    \/ SetParameter
    \/ StartAcquisition
    \/ StopAcquisition
    \/ GrabFrame
    \/ Destroy
    \/ ControlStep

\* The control thread and the video threads side by side.
Next ==
    \/ ListDevices
    \/ Open
    \/ Close
    \/ SetSingleParameter
    \/ StartAcquisition
    \/ StopAcquisition
    \/ GrabFrame
    \/ StartCaptureVideo
    \/ StopCaptureVideo
    \/ StopCaptureJoin
    \/ Destroy
    \/ ControlStep
    \/ VideoCheck
    \/ VideoDequeue
    \/ VideoEnqueue
    \/ VideoShow
    \/ VideoSleep

Spec == Init /\ [][Next]_vars

ApiSpec == Init /\ [][ApiNext]_vars

\* The scheduler lets a thread that can take a step take it: the video
\* threads go on, and a join() whose thread has finished returns.
FairSpec == Spec /\ WF_vars(VideoNext) /\ WF_vars(StopCaptureJoin)

(***************************************************************************)
(* Reading the history of the control thread's most recent call.            *)
(***************************************************************************)
\* The positions of the driver call fn in the most recent call.
CallsOf(fn) == {i \in 1..Len(last.calls) : last.calls[i].fn = fn}

Called(fn) == CallsOf(fn) # {}

\* The position of the first call of fn in the most recent call.
FirstCall(fn) == CHOOSE i \in CallsOf(fn) : \A j \in CallsOf(fn) : i <= j

\* The most recent call has returned or thrown.
Finished == last.exc # Pending

\* The most recent call ended with an exception the caller can catch.
Threw == last.exc \notin {NoExc, Pending, Crash, "std::terminate"}

(***************************************************************************)
(* C1: close() is idempotent: whenever close() is called twice in a row,    *)
(* neither call raises an error and the second call makes no driver call    *)
(* (no second dc1394_camera_free, no second stop).  Stated for a first      *)
(* close() that found camHandle pointing to a live camera, so that every    *)
(* driver call involved is a defined one.                                   *)
(***************************************************************************)
C1_CloseTwiceIsNoOp ==
    (last.op = "close" /\ last.after \in {"close", "close threw"} /\ Finished)
        => (last.after = "close" /\ last.exc = NoExc /\ last.calls = <<>>)

(***************************************************************************)
(* C2: stopCaptureVideo() returns only after the video thread has left      *)
(* grabVideo(), and once stopCaptureVideo() has returned the sink's         *)
(* showImage is not called (until the control thread's next call).          *)
(***************************************************************************)
StopReturned == last.op = "stopCaptureVideo" /\ last.exc = NoExc

C2_StopJoinsThread ==
    /\ [](StopReturned => vpc[1] = "exited")
    /\ [][StopReturned => ~VideoShow]_vars

\* stopCaptureVideo() has returned after the video thread grabbed a frame
\* and showed it.
C2_Witness ==
    /\ StopReturned
    /\ vpc[1] = "exited"
    /\ cam.videoThread = "empty"
    /\ ~cam.isCapturingVideo
    /\ vlog[1] # <<>>
    /\ vlog[1][1].fn = "dc1394_capture_enqueue"

(***************************************************************************)
(* C3: grabFrame() gives back every buffer it takes: as long as no enqueue  *)
(* has failed on the camera's ring, the buffers handed out are never more   *)
(* than one, and none while no grabFrame() is in progress, however many     *)
(* have succeeded.                                                          *)
(***************************************************************************)
\* A thread is inside grabFrame().
Grabbing ==
    \/ last.op = "grabFrame" /\ last.exc = Pending
    \/ \E t \in VideoThreads : vpc[t] \in {"dequeue", "enqueue"}

C3_BuffersReturned ==
    ~dev.stuck => /\ Dequeued(dev) <= 1
                  /\ ~Grabbing => Dequeued(dev) = 0

(***************************************************************************)
(* C4: in every reachable state the transmitting flag implies the open      *)
(* flag (isTransmitting => isDeviceOpened).                                 *)
(***************************************************************************)
C4_TransmittingImpliesOpen == cam.isTransmitting => cam.isDeviceOpened

(***************************************************************************)
(* C5: setParameter on a transmitting handle turns transmission off and     *)
(* stops capture before it applies any parameter, and when a setParameter   *)
(* that applied BusSpeed returns, the handle is not transmitting.           *)
(***************************************************************************)
C5_SetParameterStopsTransmission ==
    (/\ last.op = "setParameter" /\ Finished
     /\ last.wasTransmitting /\ last.wasHandle = "live")
        => /\ Len(last.calls) >= 2
           /\ last.calls[1].fn = "dc1394_video_set_transmission(OFF)"
           /\ last.calls[2].fn = "dc1394_capture_stop"
           /\ (last.exc = NoExc /\ Called("dc1394_video_set_iso_speed"))
                 => ~cam.isTransmitting

(***************************************************************************)
(* C6: once setParameter has failed on Resolution or FrameRate and freed    *)
(* the camera, every further setParameter, startAcquisition, grabFrame,     *)
(* stopAcquisition and close on the handle fails, without a driver call     *)
(* through the freed handle.                                                *)
(***************************************************************************)
C6_UnusableAfterFatalConfig ==
    (/\ last.wasUnusable
     /\ last.op \in {"close", "setParameter", "startAcquisition",
                     "stopAcquisition", "grabFrame"})
        => (last.exc # NoExc /\ last.calls = <<>>)

(***************************************************************************)
(* C7: when grabFrame() fails inside grabVideo(), the loop ends with        *)
(* isCapturingVideo cleared and the error is handed to the program (the     *)
(* caller of stopCaptureVideo() or an error channel) instead of being lost. *)
(* Stated for a grabFrame() whose driver calls went to a live camera.       *)
(***************************************************************************)
C7_LoopErrorDelivered ==
    \A t \in VideoThreads :
        (verr[t] \in {E_Dequeue, E_Enqueue} /\ vlog[t][1].h = "live")
            => (vpc[t] = "threw" /\ ~cam.isCapturingVideo /\ proc = "running")

(***************************************************************************)
(* C8: close() on an open, transmitting handle completes the teardown: it   *)
(* raises nothing, frees the camera, and leaves both flags false, also when *)
(* stopping capture or transmission fails.                                  *)
(***************************************************************************)
C8_CloseCompletesTeardown ==
    (/\ last.op = "close" /\ Finished
     /\ last.wasOpened /\ last.wasTransmitting /\ last.wasHandle = "live")
        => /\ last.exc = NoExc
           /\ Cardinality(CallsOf("dc1394_camera_free")) = 1
           /\ ~cam.isDeviceOpened
           /\ ~cam.isTransmitting

(***************************************************************************)
(* C9: stopAcquisition() attempts both sub-steps (stopping transmission and *)
(* releasing the capture buffers) and leaves isTransmitting false whether   *)
(* or not one of them fails; a failure is reported as a stop error.         *)
(***************************************************************************)
C9_StopAlwaysStops ==
    (/\ last.op = "stopAcquisition" /\ Finished
     /\ last.wasTransmitting /\ last.wasHandle = "live")
        => /\ Called("dc1394_capture_stop")
           /\ Called("dc1394_video_set_transmission(OFF)")
           /\ ~cam.isTransmitting
           /\ last.exc \in {NoExc, E_StopAcq, E_StopTx}

(***************************************************************************)
(* C10: when the dequeue or the enqueue of grabFrame() fails, transmission  *)
(* and capture are stopped, the camera is freed exactly once and the call   *)
(* fails with the frame-grab error, also when the forced stop fails.        *)
(***************************************************************************)
C10_GrabFailureReleases ==
    (last.op = "grabFrame" /\ last.wasTransmitting /\ last.wasHandle = "live" /\ Threw)
        => /\ last.exc \in {E_Dequeue, E_Enqueue}
           /\ Called("dc1394_capture_stop")
           /\ Called("dc1394_video_set_transmission(OFF)")
           /\ Cardinality(CallsOf("dc1394_camera_free")) = 1

(***************************************************************************)
(* C11: when startAcquisition() fails on a live, idle camera, the camera is *)
(* freed exactly once and isTransmitting is not set; the error is the       *)
(* transmission error when dc1394_capture_setup succeeded and starting      *)
(* transmission failed, and the capture-setup error, with transmission      *)
(* never attempted, when dc1394_capture_setup failed.                       *)
(***************************************************************************)
C11_StartFailureReleases ==
    (/\ last.op = "startAcquisition"
     /\ last.wasHandle = "live" /\ ~last.wasTransmitting /\ Threw)
        => /\ ~cam.isTransmitting
           /\ Cardinality(CallsOf("dc1394_camera_free")) = 1
           /\ last.exc = IF Called("dc1394_video_set_transmission(ON)")
                         THEN E_StartTx ELSE E_Setup

(***************************************************************************)
(* C12: stopAcquisition() turns isochronous transmission off before it      *)
(* stops capture: whenever it calls dc1394_capture_stop, the call of        *)
(* dc1394_video_set_transmission(OFF) has come before.                      *)
(***************************************************************************)
C12_TransmissionOffFirst ==
    (/\ last.op = "stopAcquisition"
     /\ last.wasHandle = "live" /\ Called("dc1394_capture_stop"))
        => /\ Called("dc1394_video_set_transmission(OFF)")
           /\ FirstCall("dc1394_video_set_transmission(OFF)")
                 < FirstCall("dc1394_capture_stop")

(***************************************************************************)
(* C13: over every sequence of open, setParameter, startAcquisition,        *)
(* grabFrame, stopAcquisition, close and destruction, with any driver       *)
(* failures, no driver call is made through a camera handle that has been   *)
(* freed: neither a second dc1394_camera_free nor any other use.            *)
(***************************************************************************)
C13_NoUseAfterFree ==
    \A i \in 1..Len(last.calls) : last.calls[i].h # "freed"

(***************************************************************************)
(* C14: grabFrame() called while the handle is not transmitting does not    *)
(* dequeue a buffer: it makes no call of dc1394_capture_dequeue.            *)
(***************************************************************************)
C14_GrabOnlyWhenTransmitting ==
    (last.op = "grabFrame" /\ last.wasHandle = "live" /\ ~last.wasTransmitting)
        => ~Called("dc1394_capture_dequeue")

(***************************************************************************)
(* C15: startAcquisition() on a handle that is already transmitting sets up *)
(* no second DMA ring and does not start transmission a second time.        *)
(***************************************************************************)
C15_OneSessionPerHandle ==
    (/\ last.op = "startAcquisition"
     /\ last.wasHandle = "live" /\ last.wasTransmitting)
        => /\ ~Called("dc1394_capture_setup")
           /\ ~Called("dc1394_video_set_transmission(ON)")

(***************************************************************************)
(* C16: a BusSpeed failure in setParameter does not free the camera: the    *)
(* handle stays open and the parameters after BusSpeed are not applied, and *)
(* a close() that follows frees the camera exactly once and returns.        *)
(***************************************************************************)
BusSpeedFailed ==
    last.op = "setParameter" /\ last.exc = E_BusSpeed /\ last.wasHandle = "live"

C16_BusSpeedFailureKeepsHandle ==
    /\ BusSpeedFailed
          => /\ cam.camHandle = "live"
             /\ cam.isDeviceOpened
             /\ ~Called("dc1394_camera_free")
             /\ last.calls[Len(last.calls)].fn = "dc1394_video_set_iso_speed"
    /\ (last.op = "close" /\ last.after = "BusSpeed failed" /\ Finished)
          => /\ last.exc = NoExc
             /\ Cardinality(CallsOf("dc1394_camera_free")) = 1
             /\ ~cam.isDeviceOpened

(***************************************************************************)
(* C17: the destructor of a Camera whose device is open releases the driver *)
(* context exactly once, and only after the device has been closed: the     *)
(* call of dc1394_free is the last one and comes after dc1394_camera_free,  *)
(* which comes after the transmission stop when the camera was              *)
(* transmitting.                                                            *)
(***************************************************************************)
C17_ContextReleasedLast ==
    (last.op = "~Camera" /\ Finished /\ last.wasOpened /\ last.wasHandle = "live")
        => /\ Cardinality(CallsOf("dc1394_free")) = 1
           /\ last.calls[Len(last.calls)].fn = "dc1394_free"
           /\ Called("dc1394_camera_free")
           /\ last.wasTransmitting
                 => /\ Called("dc1394_video_set_transmission(OFF)")
                    /\ FirstCall("dc1394_video_set_transmission(OFF)")
                          < FirstCall("dc1394_camera_free")

(***************************************************************************)
(* C18: stopping the capture loop is cooperative.  stopCaptureVideo() does  *)
(* not interrupt a grabFrame() in progress; while the video thread is       *)
(* inside grabFrame() it has not returned, so it never returns if that      *)
(* grabFrame() never does; the loop starts no new iteration after the one   *)
(* in progress; and under fair scheduling stopCaptureVideo() returns,       *)
(* unless grabFrame() throws instead of returning.                          *)
(***************************************************************************)
\* A step of the control thread inside stopCaptureVideo().
StopStep ==
    \/ StopCaptureVideo
    \/ last.op = "stopCaptureVideo" /\ (ControlStep \/ StopCaptureJoin)

C18_CooperativeStop ==
    /\ [][StopStep => (vpc' = vpc /\ vstk' = vstk /\ dev' = dev)]_vars
    /\ []((last.op = "stopCaptureVideo" /\ vpc[1] \in {"dequeue", "enqueue"})
             => last.exc = Pending)
    /\ [][(cpc = "join" /\ VideoCheck) => vpc'[1] = "exited"]_vars
    /\ (cpc = "join") ~> (cpc = "ready" \/ vpc[1] = "threw")

\* stopCaptureVideo() waits in join() while the video thread holds the
\* buffer of a grabFrame() in progress.
C18_Witness ==
    /\ cpc = "join"
    /\ last.op = "stopCaptureVideo"
    /\ ~cam.isCapturingVideo
    /\ vpc[1] = "enqueue"
    /\ cam.camHandle = "live"
    /\ Dequeued(dev) = 1

(***************************************************************************)
(* C19: no configuration or teardown call (setParameter, stopAcquisition,   *)
(* close, destruction) starts on an open camera while the video thread is   *)
(* inside grabFrame(), between its dequeue and its re-enqueue.              *)
(***************************************************************************)
C19_NoTeardownDuringGrab ==
    [][(vpc[1] = "enqueue" /\ cam.camHandle = "live" /\ cam.isDeviceOpened)
          => ~(SetSingleParameter \/ StopAcquisition \/ Close \/ Destroy)]_vars

(***************************************************************************)
(* C20: an open() that fails leaves isDeviceOpened, isTransmitting and      *)
(* camHandle as they were, and an open() that succeeds on a Camera holding  *)
(* an open device frees the camera it held.                                 *)
(***************************************************************************)
C20_FailedOpenChangesNothing ==
    (last.op = "open" /\ Finished /\ last.wasOpened /\ last.wasHandle = "live")
        => /\ last.exc = E_Open
                 => /\ cam.camHandle = last.wasHandle
                    /\ cam.isDeviceOpened = last.wasOpened
                    /\ cam.isTransmitting = last.wasTransmitting
           /\ last.exc = NoExc => Called("dc1394_camera_free")

====
